---- MODULE Spec2Model ----
(***************************************************************************)
(* "Who's That Pokemon?" (matracey/pkmn): the App component's state, its   *)
(* handlers and effects, and the flavor-text redaction of fetchGame.       *)
(*                                                                         *)
(* Text is modelled as a sequence of one-character strings, so that the    *)
(* regular expressions and string methods of the source can be computed    *)
(* character by character.                                                 *)
(***************************************************************************)
EXTENDS Integers, Sequences, FiniteSets, TLC

(***************************************************************************)
(* Characters: the classes the regular expressions of fetchGame use.       *)
(***************************************************************************)
UpperCaseLetters == <<"A", "B", "C", "D", "E", "F", "G", "H", "I", "J", "K", "L", "M", "N", "O", "P", "Q", "R", "S", "T", "U", "V", "W", "X", "Y", "Z">>

LowerCaseLetters == <<"a", "b", "c", "d", "e", "f", "g", "h", "i", "j", "k", "l", "m", "n", "o", "p", "q", "r", "s", "t", "u", "v", "w", "x", "y", "z">>

DigitChars == <<"0", "1", "2", "3", "4", "5", "6", "7", "8", "9">>

Range(s) == {s[i] : i \in DOMAIN s}

\* \w of a JavaScript regular expression without the u flag: [A-Za-z0-9_]
WordChars == Range(UpperCaseLetters) \cup Range(LowerCaseLetters) \cup Range(DigitChars) \cup {"_"}

IsWordChar(c) == c \in WordChars

\* \s (the class [\s\n] of the final replace); the members a flavor text can hold
WhitespaceChars == {" ", "\n", "\t", "\r", "\f"}

\* String.prototype.toLowerCase on one character
LowerChar(c) ==
    IF \E i \in DOMAIN UpperCaseLetters : UpperCaseLetters[i] = c
    THEN LowerCaseLetters[CHOOSE i \in DOMAIN UpperCaseLetters : UpperCaseLetters[i] = c]
    ELSE c

\* c.toLowerCase()
toLowerCase(s) == [i \in 1..Len(s) |-> LowerChar(s[i])]

\* c.replace(/\W+/g, ""): every run of non-word characters is deleted
StripNonWord(s) == SelectSeq(s, IsWordChar)

\* _.repeat(ch, n)
RECURSIVE repeat(_, _)
repeat(ch, n) == IF n <= 0 THEN <<>> ELSE <<ch>> \o repeat(ch, n - 1)

\* String.prototype.indexOf(pat): the first 0-based index of pat in s, or -1
IndexOf(s, pat) ==
    LET hits == {i \in 0..(Len(s) - Len(pat)) : SubSeq(s, i + 1, i + Len(pat)) = pat}
    IN  IF hits = {} THEN -1 ELSE CHOOSE i \in hits : \A j \in hits : i <= j

\* String.prototype.replace(pat, rep) with a string pattern: the first
\* occurrence only; rep holds no $ pattern
ReplaceFirst(s, pat, rep) ==
    LET i == IndexOf(s, pat)
    IN  IF i < 0 THEN s
        ELSE SubSeq(s, 1, i) \o rep \o SubSeq(s, i + Len(pat) + 1, Len(s))

(***************************************************************************)
(* The flavor redaction of fetchGame.                                      *)
(***************************************************************************)
\* _.repeat("_", 4): the length of the mask
MaskLength == 4

Mask == repeat("_", MaskLength)

\* String.prototype.split(/(?=\W+)/g): the lookahead matches the empty string
\* before every non-word character. p is where the current piece starts, q the
\* position tried; a match at q = p is an empty match at the start of the piece
\* and is skipped, so no piece is empty (but the piece of an empty string).
RECURSIVE SplitFrom(_, _, _, _)
SplitFrom(s, p, q, acc) ==
    IF q > Len(s) THEN Append(acc, SubSeq(s, p, Len(s)))
    ELSE IF ~IsWordChar(s[q]) /\ q # p
         THEN SplitFrom(s, q, q, Append(acc, SubSeq(s, p, q - 1)))
         ELSE SplitFrom(s, p, q + 1, acc)

\* split(/\W+/g): without the lookahead the separators are consumed
RECURSIVE SplitConsuming(_, _, _)
SplitConsuming(s, piece, acc) ==
    IF s = <<>> THEN Append(acc, piece)
    ELSE IF IsWordChar(Head(s)) THEN SplitConsuming(Tail(s), Append(piece, Head(s)), acc)
    ELSE IF Len(s) > 1 /\ ~IsWordChar(s[2]) THEN SplitConsuming(Tail(s), piece, acc)
    ELSE SplitConsuming(Tail(s), <<>>, Append(acc, piece))

SplitWithoutLookahead(s) == SplitConsuming(s, <<>>, <<>>)

SplitFlavor(s) == SplitFrom(s, 1, 1, <<>>)

\* a callback whose mask is as long as the word it hides
MaskTokenByWordLength(c, bannedWordSet) ==
    LET clean == toLowerCase(StripNonWord(c))
    IN  IF clean \in bannedWordSet
        THEN ReplaceFirst(toLowerCase(c), clean, repeat("_", Len(clean)))
        ELSE c

\* a callback that looks the cleaned token up without lower-casing it
MaskTokenCaseSensitive(c, bannedWordSet) ==
    LET clean == StripNonWord(c)
    IN  IF clean \in bannedWordSet
        THEN ReplaceFirst(toLowerCase(c), clean, Mask)
        ELSE c

\* the callback of .map(): one token of the split text
MaskToken(c, bannedWordSet) ==
    LET clean == toLowerCase(StripNonWord(c))
    IN  IF clean \in bannedWordSet
        THEN ReplaceFirst(toLowerCase(c), clean, Mask)
        ELSE c

MapTokens(tokens, bannedWordSet) ==
    [i \in 1..Len(tokens) |-> MaskToken(tokens[i], bannedWordSet)]

\* .join("")
RECURSIVE JoinTokens(_)
JoinTokens(tokens) ==
    IF tokens = <<>> THEN <<>> ELSE Head(tokens) \o JoinTokens(Tail(tokens))

\* .replace(/[\s\n]/g, " "): each whitespace character becomes one space
NormalizeWhitespace(s) ==
    [i \in 1..Len(s) |-> IF s[i] \in WhitespaceChars THEN " " ELSE s[i]]

\* the whole expression assigned to flavor
RedactFlavor(text, bannedWordSet) ==
    NormalizeWhitespace(JoinTokens(MapTokens(SplitFlavor(text), bannedWordSet)))

(***************************************************************************)
(* The state of the App component and of the requests it has in flight.    *)
(***************************************************************************)
VARIABLES
    revision,        \* which of the two revisions of App the session runs
    settings,        \* useState: {rounds, pokemonPerRound, includedGenerations}
    data,            \* useState: the entities of the game
    pkmnLoading,     \* useState: the listing of all names is not loaded yet
    gameLoading,     \* useState: the skeleton is rendered instead of the game
    allPokemon,      \* useState: the Set of names, the banned words
    expandedRounds,  \* useState: per round, whether its panel is open
    loader,          \* the getPokemonsList request: pending, resolved or failed
    listRequests,    \* how many getPokemonsList requests were made
    inFlight,        \* the fetchGame calls awaiting their Promise.all
    runsStarted,     \* how many fetchGame calls were made
    lastWrite,       \* the fetchGame call whose setData ran last
    fetchFailed,     \* a fetchGame call was rejected by one of its requests
    rText,           \* redaction pipeline: the flavor_text
    rBanned,         \* redaction pipeline: bannedWordSet
    rTokens,         \* redaction pipeline: the pieces of the split
    rMasked,         \* redaction pipeline: the pieces after .map()
    rOut,            \* redaction pipeline: the string being built
    rPc,             \* redaction pipeline: the next step
    fRun,            \* one fetchGame call followed request by request
    fArrived,        \* its requests that have resolved, in the order they did
    fPc              \* idle, awaiting its requests, or done

appVars == <<revision, settings, data, pkmnLoading, gameLoading, allPokemon,
             expandedRounds, loader, listRequests, inFlight, runsStarted, lastWrite,
             fetchFailed>>

redactVars == <<rText, rBanned, rTokens, rMasked, rOut, rPc>>

fetchVars == <<fRun, fArrived, fPc>>

vars == <<appVars, redactVars, fetchVars>>

\* the two revisions of the component in the repository
Revisions == {"App.tsx", "part_000"}

numeralLookup == <<"I", "II", "III", "IV", "V", "VI", "VII", "VIII", "IX", "X">>

\* a table in which X and Y ends at 700: its generation has 51 ids
gameGenerationsWithShortGeneration == <<
    [shortGame |-> "R & B", game |-> "Red and Blue", maxDex |-> 151],
    [shortGame |-> "G & S", game |-> "Gold and Silver", maxDex |-> 251],
    [shortGame |-> "R & S", game |-> "Ruby and Sapphire", maxDex |-> 386],
    [shortGame |-> "D & P", game |-> "Diamond and Pearl", maxDex |-> 493],
    [shortGame |-> "B & W", game |-> "Black and White", maxDex |-> 649],
    [shortGame |-> "X & Y", game |-> "X and Y", maxDex |-> 700],
    [shortGame |-> "S & M", game |-> "Sun and Moon", maxDex |-> 809],
    [shortGame |-> "S & S", game |-> "Sword and Shield", maxDex |-> 905],
    [shortGame |-> "S & V", game |-> "Scarlet and Violet", maxDex |-> 1025] >>

gameGenerations == <<
    [shortGame |-> "R & B", game |-> "Red and Blue", maxDex |-> 151],
    [shortGame |-> "G & S", game |-> "Gold and Silver", maxDex |-> 251],
    [shortGame |-> "R & S", game |-> "Ruby and Sapphire", maxDex |-> 386],
    [shortGame |-> "D & P", game |-> "Diamond and Pearl", maxDex |-> 493],
    [shortGame |-> "B & W", game |-> "Black and White", maxDex |-> 649],
    [shortGame |-> "X & Y", game |-> "X and Y", maxDex |-> 721],
    [shortGame |-> "S & M", game |-> "Sun and Moon", maxDex |-> 809],
    [shortGame |-> "S & S", game |-> "Sword and Shield", maxDex |-> 905],
    [shortGame |-> "S & V", game |-> "Scarlet and Violet", maxDex |-> 1025] >>

\* the generation indices of gameGenerations (a JavaScript array: from 0)
GenerationIndices == 0..(Len(gameGenerations) - 1)

DEFAULT_ROUNDS == 6

DEFAULT_POKES_PER_ROUND == 3

\* the range inputs of the settings panel
RoundsSliderMin == 1

RoundsSliderMax == 10

PokemonSliderMin == 1

PokemonSliderMax == 6

\* _.range(start, end): start, ..., end - 1
range(start, end) == [i \in 1..(end - start) |-> start + i - 1]

\* the initial includedGenerations of each revision
DefaultIncludedGenerations(rev) ==
    IF rev = "App.tsx" THEN range(0, 8) ELSE <<0, 1, 2, 3, 4, 5, 6, 7, 8>>

\* JavaScript values that are true, false or undefined
Truthy(v) == v = "true"

Negate(v) == IF Truthy(v) THEN "false" ELSE "true"

\* array[i] of a JavaScript array (from 0): undefined outside it
At(array, i) == IF i + 1 \in DOMAIN array THEN array[i + 1] ELSE "undefined"

\* array.includes(x)
Includes(array, x) == \E i \in DOMAIN array : array[i] = x

\* array.filter((i) => i !== x)
Without(array, x) == SelectSeq(array, LAMBDA i : i # x)

\* Array.prototype.sort() without a comparator orders by the decimal string;
\* for the one-digit generation indices that is the numeric order
RECURSIVE SortIndices(_)
SortIndices(array) ==
    IF array = <<>> THEN <<>>
    ELSE LET least == CHOOSE x \in Range(array) : \A y \in Range(array) : x <= y
             first == CHOOSE i \in DOMAIN array :
                          array[i] = least /\ \A j \in DOMAIN array : array[j] = least => i <= j
         IN  <<least>> \o SortIndices(SubSeq(array, 1, first - 1) \o SubSeq(array, first + 1, Len(array)))

\* entries that start at the previous generation's maxDex
generationsFromPreviousMaxDex(s) ==
    [k \in 1..Len(s.includedGenerations) |->
        LET genIdx  == s.includedGenerations[k]
            startId == IF genIdx - 1 \in GenerationIndices
                       THEN gameGenerations[genIdx].maxDex ELSE 0
            curr    == gameGenerations[genIdx + 1]
        IN  [generation |-> numeralLookup[genIdx + 1],
             shortGame  |-> curr.shortGame,
             game       |-> curr.game,
             maxDex     |-> curr.maxDex,
             startId    |-> startId,
             endId      |-> curr.maxDex]]

\* generations(): one entry per included generation, in the order of the list
\* (the availableIds field of an entry is availableIds below)
generations(s) ==
    [k \in 1..Len(s.includedGenerations) |->
        LET genIdx  == s.includedGenerations[k]
            startId == (IF genIdx - 1 \in GenerationIndices
                        THEN gameGenerations[genIdx].maxDex ELSE 0) + 1
            curr    == gameGenerations[genIdx + 1]
        IN  [generation |-> numeralLookup[genIdx + 1],
             shortGame  |-> curr.shortGame,
             game       |-> curr.game,
             maxDex     |-> curr.maxDex,
             startId    |-> startId,
             endId      |-> curr.maxDex]]

\* availableIds: _.range(startId, endId + 1)
availableIds(gen) == range(gen.startId, gen.endId + 1)

\* _(gens).flatMap("availableIds")
RECURSIVE FlatAvailableIds(_)
FlatAvailableIds(gens) ==
    IF gens = <<>> THEN <<>> ELSE availableIds(Head(gens)) \o FlatAvailableIds(Tail(gens))

(***************************************************************************)
(* sampleSize: lodash's partial Fisher-Yates shuffle. Math.random is a     *)
(* stream of draws fixed by a seed; the k-th draw is a fraction of         *)
(* RandomModulus.                                                          *)
(***************************************************************************)
RandomModulus == 16

RandomDraw(seed, k) == ((seed + k) * (2 * seed + 1) * 37) % RandomModulus

\* baseRandom(lower, upper) with the k-th draw
baseRandom(lower, upper, seed, k) ==
    lower + ((RandomDraw(seed, k) * (upper - lower + 1)) \div RandomModulus)

Swap(array, i, j) == [array EXCEPT ![i] = array[j], ![j] = array[i]]

\* one pass of the loop of shuffleSelf: array[index] and array[rand] change places
ShuffleStep(array, index, seed) ==
    Swap(array, index + 1, baseRandom(index, Len(array) - 1, seed, index) + 1)

\* the passes from..(to - 1) of the loop, in order: the first half is computed
\* before the second starts
RECURSIVE ShufflePasses(_, _, _, _)
ShufflePasses(array, from, to, seed) ==
    IF from >= to THEN array
    ELSE IF to = from + 1 THEN ShuffleStep(array, from, seed)
    ELSE LET mid   == (from + to) \div 2
             first == ShufflePasses(array, from, mid, seed)
         IN  IF Len(first) = Len(array) THEN ShufflePasses(first, mid, to, seed) ELSE first

\* shuffleSelf(array, size): the first size passes, then array.length = size
shuffleSelf(array, size, seed) == SubSeq(ShufflePasses(array, 0, size, seed), 1, size)

sampleSize(array, n, seed) ==
    LET size == IF n < 0 THEN 0 ELSE IF n > Len(array) THEN Len(array) ELSE n
    IN  shuffleSelf(array, size, seed)

(***************************************************************************)
(* The PokeAPI records the component reads, as functions of the id.        *)
(***************************************************************************)
SpeciesNames == << <<"m", "e", "w">>,
                   <<"h", "o", "-", "o", "h">>,
                   <<"a", "b", "r", "a">> >>

FlavorTexts == << <<"M", "e", "w", " ", "n", "a", "p", "s", ".">>,
                  <<"H", "O", "-", "O", "H", "'", "s", "\n", "w", "i", "n", "g">>,
                  <<"A", "n", " ", "A", "B", "R", "A", ",", " ", "m", "e", "w", ".">> >>

\* P.getPokemonSpeciesByName(id): the fields fetchGame reads. flavor_text is
\* "" when no entry is in English.
SpeciesRecord(id) ==
    [id          |-> id,
     name        |-> SpeciesNames[(id % Len(SpeciesNames)) + 1],
     flavor_text |-> IF id % (Len(FlavorTexts) + 1) = Len(FlavorTexts)
                     THEN <<>> ELSE FlavorTexts[(id % (Len(FlavorTexts) + 1)) + 1]]

\* P.getPokemonByName(id): the fields fetchGame reads
PokemonRecord(id) ==
    [id     |-> id,
     name   |-> SpeciesNames[(id % Len(SpeciesNames)) + 1],
     sprite |-> <<"front_default", id>>]

\* { ...species, ...pokemon }: a field of both records is pokemon's
Spread(species, pokemon) ==
    [id          |-> pokemon.id,
     name        |-> pokemon.name,
     flavor_text |-> species.flavor_text,
     sprite      |-> pokemon.sprite]

\* the two records of id, merged
MergedRecord(id) == Spread(SpeciesRecord(id), PokemonRecord(id))

\* the results of P.getPokemonsList() a session may receive
ListingResults == { << [name |-> SpeciesNames[1]], [name |-> SpeciesNames[2]],
                       [name |-> SpeciesNames[3]] >>,
                    << [name |-> SpeciesNames[1]] >> }

\* new Set(fetchedPokemons.results.map((p) => p.name)): the names as the
\* listing spells them
NameSet(results) == {results[i].name : i \in DOMAIN results}

\* the sets of names a session may hold in allPokemon
Listings == {NameSet(results) : results \in ListingResults}

(***************************************************************************)
(* fetchGame: the part before the await, and its continuation.             *)
(***************************************************************************)
\* a slip in the product
TotalBySum(s) == s.rounds + s.pokemonPerRound

\* const total = settings.rounds * settings.pokemonPerRound
total(s) == s.rounds * s.pokemonPerRound

\* total independent draws of _.sample instead of one sampleSize
SampledWithReplacement(s, seed) ==
    LET pool == FlatAvailableIds(generations(s))
    IN  [k \in 1..(IF Len(pool) = 0 THEN 0 ELSE s.rounds * s.pokemonPerRound) |->
            pool[baseRandom(0, Len(pool) - 1, seed, k - 1) + 1]]

\* a sample of all the ids there are, whatever the included generations
SampledFromEveryGeneration(s, seed) ==
    sampleSize(range(1, gameGenerations[Len(gameGenerations)].maxDex + 1), total(s), seed)

\* const ids = _(gens).flatMap("availableIds").sampleSize(total).value()
SampledIds(s, seed) == sampleSize(FlatAvailableIds(generations(s)), total(s), seed)

\* the flavor of every text the API holds under every listing, computed once
ApiFlavorTexts == Range(FlavorTexts) \cup {<<>>}

FlavorOf[text \in ApiFlavorTexts, bannedWordSet \in Listings] ==
    RedactFlavor(text, bannedWordSet)

\* the object literal of pokemonData.map(): revision part_000 adds revealed: false
CleanedEntity(s, bannedWordSet, rev) ==
    [id       |-> s.id,
     name     |-> s.name,
     flavor   |-> IF s.flavor_text \in ApiFlavorTexts /\ bannedWordSet \in Listings
                  THEN FlavorOf[s.flavor_text, bannedWordSet]
                  ELSE RedactFlavor(s.flavor_text, bannedWordSet),
     sprite   |-> s.sprite,
     revealed |-> IF rev = "part_000" THEN "false" ELSE "undefined"]

\* Promise.all keeps the order of ids; cleaned is pokemonData mapped
Cleaned(run, rev) ==
    [k \in 1..Len(run.ids) |-> CleanedEntity(MergedRecord(run.ids[k]), run.bannedWordSet, rev)]

NoRun == [n |-> 0, settings |-> [rounds |-> 0, pokemonPerRound |-> 0, includedGenerations |-> <<>>],
          bannedWordSet |-> {}, ids |-> <<>>]

\* a call made by the closure of the render before the change
NewRunOfPreviousRender(s, bannedWordSet, seed) ==
    [n             |-> runsStarted + 1,
     settings      |-> settings,
     bannedWordSet |-> bannedWordSet,
     ids           |-> SampledIds(settings, seed)]

\* a call of fetchGame up to its first await: what the closure captured
NewRun(s, bannedWordSet, seed) ==
    [n             |-> runsStarted + 1,
     settings      |-> s,
     bannedWordSet |-> bannedWordSet,
     ids           |-> SampledIds(s, seed)]

\* the effect without its test of pkmnLoading
FetchGameEffectUnguarded(s, loading, bannedWordSet, seed) ==
    /\ inFlight' = inFlight \cup {NewRun(s, bannedWordSet, seed)}
    /\ runsStarted' = runsStarted + 1

\* the effect on [P, generations, allPokemon, settings, pkmnLoading], run after
\* a render in which one of them changed
FetchGameEffect(s, loading, bannedWordSet, seed) ==
    IF ~loading
    THEN /\ inFlight' = inFlight \cup {NewRun(s, bannedWordSet, seed)}
         /\ runsStarted' = runsStarted + 1
    ELSE UNCHANGED <<inFlight, runsStarted>>

(***************************************************************************)
(* The fetchAllPokemon effect.                                             *)
(***************************************************************************)
\* useMemo(() => new Pokedex(), []): the same client in every render
P == "Pokedex"

\* an effect that lists settings among its dependencies
LoaderDependenciesWithSettings(s) == <<P, s>>

\* the dependency list of the fetchAllPokemon effect, in a render with settings s
LoaderDependencies(s) == <<P>>

\* the effect after a render that changed settings from before to after: it runs
\* again, and requests the listing again, when one of its dependencies changed
FetchAllPokemonEffect(before, after) ==
    IF LoaderDependencies(before) # LoaderDependencies(after)
    THEN /\ listRequests' = listRequests + 1
         /\ loader' = "pending"
    ELSE UNCHANGED <<listRequests, loader>>

(***************************************************************************)
(* The initial state: the first render, with getPokemonsList requested.    *)
(***************************************************************************)
RedactIdle ==
    /\ rText = <<>>
    /\ rBanned = {}
    /\ rTokens = <<>>
    /\ rMasked = <<>>
    /\ rOut = <<>>
    /\ rPc = "idle"

AppInit ==
    /\ revision \in Revisions
    /\ settings = [rounds              |-> DEFAULT_ROUNDS,
                   pokemonPerRound     |-> DEFAULT_POKES_PER_ROUND,
                   includedGenerations |-> DefaultIncludedGenerations(revision)]
    /\ data = <<>>
    /\ pkmnLoading = TRUE
    /\ gameLoading = TRUE
    /\ allPokemon = {}
    /\ expandedRounds = [i \in 1..DEFAULT_ROUNDS |-> IF i - 1 = 0 THEN "true" ELSE "false"]
    /\ loader = "pending"
    /\ listRequests = 1
    /\ inFlight = {}
    /\ runsStarted = 0
    /\ lastWrite = NoRun
    /\ fetchFailed = FALSE

\* no fetchGame call is followed request by request
FetchIdle ==
    /\ fRun = NoRun
    /\ fArrived = <<>>
    /\ fPc = "idle"

Init == AppInit /\ RedactIdle /\ FetchIdle

(***************************************************************************)
(* The continuations of the two effects.                                   *)
(***************************************************************************)
\* fetchAllPokemon after its await; the fetchGame effect then runs
LoaderResolve(results, seed) ==
    /\ loader = "pending"
    /\ loader' = "resolved"
    /\ allPokemon' = NameSet(results)
    /\ pkmnLoading' = FALSE
    /\ FetchGameEffect(settings, FALSE, allPokemon', seed)
    /\ UNCHANGED <<revision, fetchFailed, settings, data, gameLoading, expandedRounds, listRequests,
                   lastWrite>>
    /\ UNCHANGED <<redactVars, fetchVars>>

\* a rejection caught by a handler that ends the loading state
LoaderFailCaught ==
    /\ loader = "pending"
    /\ loader' = "failed"
    /\ pkmnLoading' = FALSE
    /\ gameLoading' = FALSE
    /\ UNCHANGED <<revision, fetchFailed, settings, data, allPokemon, expandedRounds, listRequests,
                   inFlight, runsStarted, lastWrite>>
    /\ UNCHANGED <<redactVars, fetchVars>>

\* getPokemonsList rejects: nothing catches it
LoaderFail ==
    /\ loader = "pending"
    /\ loader' = "failed"
    /\ UNCHANGED <<revision, fetchFailed, settings, data, pkmnLoading, gameLoading, allPokemon,
                   expandedRounds, listRequests, inFlight, runsStarted, lastWrite>>
    /\ UNCHANGED <<redactVars, fetchVars>>

\* a continuation that drops the result of a superseded call
FetchGameResolveUnlessSuperseded(run) ==
    /\ run \in inFlight
    /\ inFlight' = inFlight \ {run}
    /\ IF run.n = runsStarted
       THEN /\ data' = Cleaned(run, revision)
            /\ gameLoading' = FALSE
            /\ lastWrite' = run
       ELSE UNCHANGED <<data, gameLoading, lastWrite>>
    /\ UNCHANGED <<revision, fetchFailed, settings, pkmnLoading, allPokemon, expandedRounds, loader,
                   listRequests, runsStarted>>
    /\ UNCHANGED <<redactVars, fetchVars>>

\* fetchGame after its Promise.all: setData(cleaned); setGameLoading(false)
FetchGameResolve(run) ==
    /\ run \in inFlight
    /\ inFlight' = inFlight \ {run}
    /\ data' = Cleaned(run, revision)
    /\ gameLoading' = FALSE
    /\ lastWrite' = run
    /\ UNCHANGED <<revision, fetchFailed, settings, pkmnLoading, allPokemon, expandedRounds, loader,
                   listRequests, runsStarted>>
    /\ UNCHANGED <<redactVars, fetchVars>>

\* a rejection caught by a handler that ends the loading state
FetchGameFailCaught(run) ==
    /\ run \in inFlight
    /\ inFlight' = inFlight \ {run}
    /\ fetchFailed' = TRUE
    /\ gameLoading' = FALSE
    /\ UNCHANGED <<revision, settings, data, pkmnLoading, allPokemon, expandedRounds, loader,
                   listRequests, runsStarted, lastWrite>>
    /\ UNCHANGED <<redactVars, fetchVars>>

\* one of the requests of a fetchGame call rejects: its Promise.all rejects
FetchGameFail(run) ==
    /\ run \in inFlight
    /\ inFlight' = inFlight \ {run}
    /\ fetchFailed' = TRUE
    /\ UNCHANGED <<revision, settings, data, pkmnLoading, gameLoading, allPokemon,
                   expandedRounds, loader, listRequests, runsStarted, lastWrite>>
    /\ UNCHANGED <<redactVars, fetchVars>>

(***************************************************************************)
(* The handlers of the settings panel (rendered in both views).            *)
(***************************************************************************)
\* onChange of the rounds slider
ChangeRounds(newRounds, seed) ==
    /\ newRounds \in RoundsSliderMin..RoundsSliderMax
    /\ newRounds # settings.rounds
    /\ settings' = [settings EXCEPT !.rounds = newRounds]
    /\ expandedRounds' = [i \in 1..newRounds |-> IF i - 1 = 0 THEN "true" ELSE "false"]
    /\ gameLoading' = TRUE
    /\ FetchGameEffect(settings', pkmnLoading, allPokemon, seed)
    /\ FetchAllPokemonEffect(settings, settings')
    /\ UNCHANGED <<revision, fetchFailed, data, pkmnLoading, allPokemon, lastWrite>>
    /\ UNCHANGED <<redactVars, fetchVars>>

\* onChange of the pokemon slider
ChangePokemonPerRound(newCount, seed) ==
    /\ newCount \in PokemonSliderMin..PokemonSliderMax
    /\ newCount # settings.pokemonPerRound
    /\ settings' = [settings EXCEPT !.pokemonPerRound = newCount]
    /\ gameLoading' = TRUE
    /\ FetchGameEffect(settings', pkmnLoading, allPokemon, seed)
    /\ FetchAllPokemonEffect(settings, settings')
    /\ UNCHANGED <<revision, fetchFailed, data, pkmnLoading, allPokemon, expandedRounds, lastWrite>>
    /\ UNCHANGED <<redactVars, fetchVars>>

\* a toggleGeneration that leaves out the sort
toggleGenerationUnsorted(included, index) ==
    IF Includes(included, index) THEN Without(included, index) ELSE Append(included, index)

\* toggleGeneration(index): the new includedGenerations
toggleGeneration(included, index) ==
    SortIndices(IF Includes(included, index)
                THEN Without(included, index)
                ELSE Append(included, index))

\* the checked attribute of the checkbox rendered at position index
CheckboxChecked(included, index) == Includes(included, index)

\* the numeral and the game name shown beside the checkbox at position index
CheckboxLabel(s, index) ==
    [generation |-> generations(s)[index + 1].generation,
     shortGame  |-> generations(s)[index + 1].shortGame,
     game       |-> generations(s)[index + 1].game]

\* the argument onChange of the checkbox at position index passes to
\* toggleGeneration
CheckboxToggles(index) == index

\* a checkbox without the disabled attribute
CheckboxNeverDisabled(included, index) == FALSE

\* the disabled attribute of the checkbox rendered at position index
CheckboxDisabled(included, index) ==
    Len(included) = 1 /\ Includes(included, index)

\* onChange of the checkbox at position index of generations().map(...)
ToggleGenerationCheckbox(index, seed) ==
    /\ index \in 0..(Len(generations(settings)) - 1)
    /\ ~CheckboxDisabled(settings.includedGenerations, index)
    /\ settings' = [settings EXCEPT
                       !.includedGenerations =
                           toggleGeneration(settings.includedGenerations, CheckboxToggles(index))]
    /\ gameLoading' = TRUE
    /\ FetchGameEffect(settings', pkmnLoading, allPokemon, seed)
    /\ FetchAllPokemonEffect(settings, settings')
    /\ UNCHANGED <<revision, fetchFailed, data, pkmnLoading, allPokemon, expandedRounds, lastWrite>>
    /\ UNCHANGED <<redactVars, fetchVars>>

(***************************************************************************)
(* The handlers of the rounds and their cards.                             *)
(***************************************************************************)
\* _.chunk(data, settings.pokemonPerRound).length, or the skeleton's rounds
RenderedRounds ==
    IF gameLoading THEN settings.rounds
    ELSE (Len(data) + settings.pokemonPerRound - 1) \div settings.pokemonPerRound

\* the updater of toggleRound(index): new Array(rounds).fill(false).map(...)
toggleRound(prev, rounds, index) ==
    [i \in 1..rounds |->
        IF i - 1 = index THEN Negate(At(prev, i - 1)) ELSE At(prev, i - 1)]

\* onClick of the header of the round rendered at position index
ToggleRound(index) ==
    /\ index \in 0..(RenderedRounds - 1)
    /\ expandedRounds' = toggleRound(expandedRounds, settings.rounds, index)
    /\ UNCHANGED <<revision, fetchFailed, settings, data, pkmnLoading, gameLoading, allPokemon, loader,
                   listRequests,
                   inFlight, runsStarted, lastWrite>>
    /\ UNCHANGED <<redactVars, fetchVars>>

\* data.findIndex((item) => item.id === id), from 0; -1 when there is none
findIndex(array, id) ==
    IF \E i \in DOMAIN array : array[i].id = id
    THEN (CHOOSE i \in DOMAIN array :
             array[i].id = id /\ \A j \in DOMAIN array : array[j].id = id => i <= j) - 1
    ELSE -1

\* the card of data[k] shows a Reveal Answer button: the game view is rendered,
\* the card's round is open and the card is not revealed
RevealButtonShown(k) ==
    /\ ~gameLoading
    /\ k \in 0..(Len(data) - 1)
    /\ Truthy(At(expandedRounds, k \div settings.pokemonPerRound))
    /\ ~Truthy(data[k + 1].revealed)

\* a handler that marks every card
RevealedAll(array, p) ==
    [i \in 1..Len(array) |-> [array[i] EXCEPT !.revealed = "true"]]

\* a handler that keeps only the clicked card revealed
RevealedOnly(array, p) ==
    [i \in 1..Len(array) |->
        [array[i] EXCEPT !.revealed = IF array[i].id = p.id THEN "true" ELSE "false"]]

\* what onClick of Reveal Answer on the card p passes to setData
RevealedData(array, p) ==
    LET index == findIndex(array, p.id)
    IN  IF index # -1 THEN [array EXCEPT ![index + 1].revealed = "true"] ELSE array

\* onClick of the Reveal Answer button of the card of data[k]
Reveal(k) ==
    /\ RevealButtonShown(k)
    /\ data' = RevealedData(data, data[k + 1])
    /\ UNCHANGED <<revision, fetchFailed, settings, pkmnLoading, gameLoading, allPokemon, expandedRounds,
                   loader, listRequests, inFlight, runsStarted, lastWrite>>
    /\ UNCHANGED <<redactVars, fetchVars>>

(***************************************************************************)
(* The session: every continuation and handler, with the user's inputs and *)
(* the draws of Math.random taken from bounded sets.                       *)
(***************************************************************************)
\* fetchGame calls a session makes at most
MaxRuns == 2

\* the values the user drags the sliders to, the checkboxes and round headers
\* the user clicks (positions from 0), the cards the user reveals (positions from 0)
RoundsInputs == {RoundsSliderMax}

PokemonInputs == {PokemonSliderMax}

CheckboxInputs == {0}

RoundInputs == {0}

CardInputs == {0, 1}

\* the seeds of Math.random a fetchGame call may run with
Seeds == {0, 1}

\* a settings change starts a fetchGame call once the listing is loaded
MayChange == pkmnLoading \/ runsStarted < MaxRuns

Next ==
    \/ \E results \in ListingResults, seed \in Seeds : LoaderResolve(results, seed)
    \/ LoaderFail
    \/ \E run \in inFlight : FetchGameResolve(run)
    \/ \E run \in inFlight : FetchGameFail(run)
    \/ \E n \in RoundsInputs, seed \in Seeds : MayChange /\ ChangeRounds(n, seed)
    \/ \E n \in PokemonInputs, seed \in Seeds : MayChange /\ ChangePokemonPerRound(n, seed)
    \/ \E i \in CheckboxInputs, seed \in Seeds : MayChange /\ ToggleGenerationCheckbox(i, seed)
    \/ \E i \in RoundInputs : ToggleRound(i)
    \/ \E k \in CardInputs : Reveal(k)

Spec == Init /\ [][Next]_vars

(***************************************************************************)
(* The settings panel alone, while the listing is loading: every value of  *)
(* the sliders and every checkbox.                                         *)
(***************************************************************************)
NextSettings ==
    \/ \E n \in RoundsSliderMin..RoundsSliderMax : ChangeRounds(n, 0)
    \/ \E n \in PokemonSliderMin..PokemonSliderMax : ChangePokemonPerRound(n, 0)
    \/ \E i \in GenerationIndices : ToggleGenerationCheckbox(i, 0)

SpecSettings == Init /\ [][NextSettings]_vars

(***************************************************************************)
(* The round headers: the rounds slider moves down and up again, the calls *)
(* complete in any order and every header of the first game is clicked.    *)
(***************************************************************************)
RoundsSliderInputs == {RoundsSliderMin, DEFAULT_ROUNDS}

HeaderInputs == 0..(DEFAULT_ROUNDS - 1)

NextRounds ==
    \/ \E results \in ListingResults : LoaderResolve(results, 0)
    \/ \E run \in inFlight : FetchGameResolve(run)
    \/ \E n \in RoundsSliderInputs : MayChange /\ ChangeRounds(n, 0)
    \/ \E i \in HeaderInputs : ToggleRound(i)

SpecRounds == Init /\ [][NextRounds]_vars

(***************************************************************************)
(* The listing alone: getPokemonsList answers with one or two names, in    *)
(* any spelling, and the first fetchGame call completes.                   *)
(***************************************************************************)
SpelledNames == { <<"m", "e", "w">>, <<"M", "e", "w">>, <<"M", "E", "W">>,
                  <<"a", "b", "r", "a">>, <<"A", "b", "r", "a">> }

ListingResultsAnyCase ==
    {<<[name |-> n]>> : n \in SpelledNames}
        \cup {<<[name |-> n], [name |-> m]>> : n \in SpelledNames, m \in SpelledNames}

NextListing ==
    \/ \E results \in ListingResultsAnyCase, seed \in Seeds : LoaderResolve(results, seed)
    \/ \E run \in inFlight : FetchGameResolve(run)

SpecListing == Init /\ [][NextListing]_vars

(***************************************************************************)
(* One fetchGame call request by request: the call made for 1 round of 3   *)
(* when the listing has loaded, its six requests resolving in any order.   *)
(***************************************************************************)
RequestKinds == {"species", "pokemon"}

\* the record the request of kind made for ids[k] resolves with
Response(ids, k, kind) ==
    IF kind = "species" THEN SpeciesRecord(ids[k]) ELSE PokemonRecord(ids[k])

\* where in arrived the request (k, kind) stands
PositionOf(arrived, k, kind) == CHOOSE i \in DOMAIN arrived : arrived[i] = <<k, kind>>

\* the promise of ids[k] settles when the later of its two requests resolves
SettledAt(arrived, k) ==
    LET species == PositionOf(arrived, k, "species")
        pokemon == PositionOf(arrived, k, "pokemon")
    IN  IF species > pokemon THEN species ELSE pokemon

\* the positions 1..n of the promises, in the order the promises settled
SettledOrder(arrived, n) ==
    [i \in 1..n |->
        CHOOSE k \in 1..n :
            Cardinality({j \in 1..n : SettledAt(arrived, j) < SettledAt(arrived, k)}) = i - 1]

\* an array filled in the order the promises settled
PromiseAllInSettledOrder(values, settled) ==
    [i \in 1..Len(values) |-> values[settled[i]]]

\* await Promise.all(promises): values[i] is the value of promises[i], in
\* whatever order the promises settled
PromiseAll(values, settled) == values

\* the async callback of ids.map for ids[k]: [species, pokemon] by position,
\* then { ...species, ...pokemon }
MergedResponse(ids, k) ==
    LET both == <<Response(ids, k, "species"), Response(ids, k, "pokemon")>>
    IN  Spread(both[1], both[2])

\* pokemonData
PokemonData(ids, arrived) ==
    PromiseAll([k \in 1..Len(ids) |-> MergedResponse(ids, k)], SettledOrder(arrived, Len(ids)))

FetchInit ==
    /\ revision \in Revisions
    /\ settings = [rounds              |-> RoundsSliderMin,
                   pokemonPerRound     |-> DEFAULT_POKES_PER_ROUND,
                   includedGenerations |-> DefaultIncludedGenerations(revision)]
    /\ data = <<>>
    /\ pkmnLoading = FALSE
    /\ gameLoading = TRUE
    /\ allPokemon \in Listings
    /\ expandedRounds = <<"true">>
    /\ loader = "resolved"
    /\ listRequests = 1
    /\ runsStarted = 1
    /\ \E seed \in Seeds :
           fRun = [n             |-> 1,
                   settings      |-> settings,
                   bannedWordSet |-> allPokemon,
                   ids           |-> SampledIds(settings, seed)]
    /\ inFlight = {fRun}
    /\ lastWrite = NoRun
    /\ fetchFailed = FALSE
    /\ fArrived = <<>>
    /\ fPc = "awaiting"
    /\ RedactIdle

\* one of P.getPokemonSpeciesByName(id), P.getPokemonByName(id) resolves
FetchRequestResolves(k, kind) ==
    /\ fPc = "awaiting"
    /\ k \in 1..Len(fRun.ids)
    /\ kind \in RequestKinds
    /\ \A i \in DOMAIN fArrived : fArrived[i] # <<k, kind>>
    /\ fArrived' = Append(fArrived, <<k, kind>>)
    /\ UNCHANGED <<fRun, fPc>>
    /\ UNCHANGED <<appVars, redactVars>>

\* every request has resolved: fetchGame goes on after its await
FetchGameContinues ==
    /\ fPc = "awaiting"
    /\ Len(fArrived) = 2 * Len(fRun.ids)
    /\ fRun \in inFlight
    /\ inFlight' = inFlight \ {fRun}
    /\ data' = [k \in 1..Len(fRun.ids) |->
                   CleanedEntity(PokemonData(fRun.ids, fArrived)[k], fRun.bannedWordSet, revision)]
    /\ gameLoading' = FALSE
    /\ lastWrite' = fRun
    /\ fPc' = "done"
    /\ UNCHANGED <<revision, fetchFailed, settings, pkmnLoading, allPokemon, expandedRounds,
                   loader, listRequests, runsStarted>>
    /\ UNCHANGED <<fRun, fArrived>>
    /\ UNCHANGED redactVars

FetchNext ==
    \/ \E k \in 1..DEFAULT_POKES_PER_ROUND, kind \in RequestKinds : FetchRequestResolves(k, kind)
    \/ FetchGameContinues

SpecFetch == FetchInit /\ [][FetchNext]_vars

(***************************************************************************)
(* A fetchGame call that fails, request by request: a game of 1 round of 3 *)
(* is shown with its first card revealed, the pokemon slider is dragged to *)
(* 2, and the requests of the new call resolve or reject in any order.     *)
(***************************************************************************)
\* the game shown before the slider was dragged: the first call's entities,
\* the first card revealed
ShownBefore(run, rev) == RevealedData(Cleaned(run, rev), Cleaned(run, rev)[1])

RejectInit ==
    /\ revision \in Revisions
    /\ settings = [rounds              |-> RoundsSliderMin,
                   pokemonPerRound     |-> 2,
                   includedGenerations |-> DefaultIncludedGenerations(revision)]
    /\ pkmnLoading = FALSE
    /\ gameLoading = TRUE
    /\ allPokemon \in Listings
    /\ expandedRounds = <<"true">>
    /\ loader = "resolved"
    /\ listRequests = 1
    /\ runsStarted = 2
    /\ \E seed \in Seeds :
           lastWrite = [n             |-> 1,
                        settings      |-> [settings EXCEPT
                                              !.pokemonPerRound = DEFAULT_POKES_PER_ROUND],
                        bannedWordSet |-> allPokemon,
                        ids           |-> SampledIds([settings EXCEPT
                                                         !.pokemonPerRound = DEFAULT_POKES_PER_ROUND],
                                                     seed)]
    /\ data = ShownBefore(lastWrite, revision)
    /\ \E seed \in Seeds :
           fRun = [n             |-> 2,
                   settings      |-> settings,
                   bannedWordSet |-> allPokemon,
                   ids           |-> SampledIds(settings, seed)]
    /\ inFlight = {fRun}
    /\ fetchFailed = FALSE
    /\ fArrived = <<>>
    /\ fPc = "awaiting"
    /\ RedactIdle

\* a Promise.allSettled in place of Promise.all: the entities of the other ids
\* are written
FetchRequestRejectsAllSettled(k, kind) ==
    /\ fPc = "awaiting"
    /\ k \in 1..Len(fRun.ids)
    /\ kind \in RequestKinds
    /\ \A i \in DOMAIN fArrived : fArrived[i] # <<k, kind>>
    /\ fRun \in inFlight
    /\ inFlight' = inFlight \ {fRun}
    /\ fetchFailed' = TRUE
    /\ fPc' = "rejected"
    /\ data' = SelectSeq(Cleaned(fRun, revision), LAMBDA e : e.id # fRun.ids[k])
    /\ gameLoading' = FALSE
    /\ lastWrite' = fRun
    /\ UNCHANGED <<revision, settings, pkmnLoading, allPokemon, expandedRounds, loader,
                   listRequests, runsStarted>>
    /\ UNCHANGED <<fRun, fArrived>>
    /\ UNCHANGED redactVars

\* one of P.getPokemonSpeciesByName(id), P.getPokemonByName(id) rejects: the
\* Promise.all of its pair rejects, so the promise of ids[k] rejects, so the
\* outer Promise.all rejects and the await throws; nothing catches it
FetchRequestRejects(k, kind) ==
    /\ fPc = "awaiting"
    /\ k \in 1..Len(fRun.ids)
    /\ kind \in RequestKinds
    /\ \A i \in DOMAIN fArrived : fArrived[i] # <<k, kind>>
    /\ fRun \in inFlight
    /\ inFlight' = inFlight \ {fRun}
    /\ fetchFailed' = TRUE
    /\ fPc' = "rejected"
    /\ UNCHANGED <<revision, settings, data, pkmnLoading, gameLoading, allPokemon,
                   expandedRounds, loader, listRequests, runsStarted, lastWrite>>
    /\ UNCHANGED <<fRun, fArrived>>
    /\ UNCHANGED redactVars

RejectNext ==
    \/ \E k \in 1..2, kind \in RequestKinds : FetchRequestResolves(k, kind)
    \/ \E k \in 1..2, kind \in RequestKinds : FetchRequestRejects(k, kind)
    \/ FetchGameContinues

SpecReject == RejectInit /\ [][RejectNext]_vars

(***************************************************************************)
(* The redaction of one flavor text, step by step, for every text up to    *)
(* MaxTextLen characters of FlavorAlphabet and every set of BannedWords.   *)
(***************************************************************************)
MaxTextLen == 4

FlavorAlphabet == {"a", "A", "_", "\n", "-"}

BannedWords == { <<"a">>, <<"a", "a">>, <<"a", "-", "a">>, <<"_", "_", "_", "_">> }

BoundedSeq(S, n) == UNION {[1..m -> S] : m \in 0..n}

ExampleInputs == {
    << <<"S", "l", "o", "w", "b", "r", "o", " ", "i", "s", " ", "l", "a", "z", "y", ".">>,
       {<<"s", "l", "o", "w", "b", "r", "o">>} >>,
    << <<"H", "O", "-", "O", "H", "'", "s", " ", "w", "i", "n", "g", "s", ",", "\n", "M", "e", "w", "'", "s", " ", "t", "a", "i", "l", ".">>,
       {<<"h", "o", "-", "o", "h">>, <<"m", "e", "w">>} >> }

RedactInit ==
    /\ AppInit
    /\ revision = "App.tsx"
    /\ \/ rText \in BoundedSeq(FlavorAlphabet, MaxTextLen) /\ rBanned \in SUBSET BannedWords
       \/ \E ex \in ExampleInputs : rText = ex[1] /\ rBanned = ex[2]
    /\ rTokens = <<>>
    /\ rMasked = <<>>
    /\ rOut = <<>>
    /\ rPc = "split"
    /\ FetchIdle

\* _.split(flavor_text, /(?=\W+)/g)
RedactSplit ==
    /\ rPc = "split"
    /\ rTokens' = SplitFlavor(rText)
    /\ rPc' = "map"
    /\ UNCHANGED <<rText, rBanned, rMasked, rOut>>
    /\ UNCHANGED <<appVars, fetchVars>>

\* .map((c) => ...)
RedactMap ==
    /\ rPc = "map"
    /\ rMasked' = MapTokens(rTokens, rBanned)
    /\ rPc' = "join"
    /\ UNCHANGED <<rText, rBanned, rTokens, rOut>>
    /\ UNCHANGED <<appVars, fetchVars>>

\* .join("")
RedactJoin ==
    /\ rPc = "join"
    /\ rOut' = JoinTokens(rMasked)
    /\ rPc' = "replace"
    /\ UNCHANGED <<rText, rBanned, rTokens, rMasked>>
    /\ UNCHANGED <<appVars, fetchVars>>

\* .replace(/[\s\n]/g, " ")
RedactReplace ==
    /\ rPc = "replace"
    /\ rOut' = NormalizeWhitespace(rOut)
    /\ rPc' = "done"
    /\ UNCHANGED <<rText, rBanned, rTokens, rMasked>>
    /\ UNCHANGED <<appVars, fetchVars>>

RedactNext == RedactSplit \/ RedactMap \/ RedactJoin \/ RedactReplace

SpecRedact == RedactInit /\ [][RedactNext]_vars

(***************************************************************************)
(* Properties of a session (Spec).                                         *)
(***************************************************************************)
PoolSize(s) == Len(FlatAvailableIds(generations(s)))

\* no value occurs twice in seq
Injective(seq) == Cardinality(Range(seq)) = Len(seq)

DataIds == [i \in 1..Len(data) |-> data[i].id]

\* C1: a fetchGame call whose requests all succeed samples, and writes to data,
\* exactly rounds x pokemonPerRound entities of the settings it captured,
\* provided the pool of eligible ids holds at least that many.
C1_EntityCount ==
    /\ \A run \in inFlight :
           \/ Len(run.ids) = run.settings.rounds * run.settings.pokemonPerRound
           \/ PoolSize(run.settings) < run.settings.rounds * run.settings.pokemonPerRound
    /\ \/ lastWrite = NoRun
       \/ Len(data) = lastWrite.settings.rounds * lastWrite.settings.pokemonPerRound
       \/ PoolSize(lastWrite.settings) <
              lastWrite.settings.rounds * lastWrite.settings.pokemonPerRound

\* a call for 10 rounds of 6 has written its 60 entities
C1_Witness ==
    /\ lastWrite # NoRun
    /\ lastWrite.settings.rounds = RoundsSliderMax
    /\ lastWrite.settings.pokemonPerRound = PokemonSliderMax
    /\ Len(data) = 60

\* C2: the ids sampled by a fetchGame call, and the ids of the entities in data,
\* are pairwise distinct.
C2_DistinctIds ==
    /\ \A run \in inFlight : Injective(run.ids)
    /\ Injective(DataIds)

\* data holds the 60 entities of a call while another call is in flight
C2_Witness ==
    /\ Len(data) = 60
    /\ \E run \in inFlight : Len(run.ids) >= 2

\* a call is superseded when a later call is in flight
Superseded(run) == \E other \in inFlight : other.n > run.n

\* C3: a superseded fetchGame call is not cancelled: its continuation can still
\* run, and then writes its own result to data and sets gameLoading to false.
C3_StaleRunStillWrites ==
    \A run \in inFlight :
        Superseded(run) =>
            ENABLED (/\ FetchGameResolve(run)
                     /\ data' = Cleaned(run, revision)
                     /\ gameLoading' = FALSE)

\* the result of a superseded call is shown while the call for the current
\* settings is in flight
C3_Witness ==
    /\ lastWrite # NoRun
    /\ Superseded(lastWrite)
    /\ lastWrite.settings # settings
    /\ data = Cleaned(lastWrite, revision)
    /\ ~gameLoading

\* the call made for the current settings is in flight
CurrentRunInFlight == \E run \in inFlight : run.n = runsStarted /\ run.settings = settings

\* C4 (as claimed): the skeleton is shown until the listing and the fetchGame call
\* for the current settings have completed; the game view is never shown while
\* that call is in flight.
C4_SkeletonUntilCurrentRunDone ==
    /\ pkmnLoading => gameLoading
    /\ CurrentRunInFlight => gameLoading

(***************************************************************************)
(* Properties of the settings panel (SpecSettings).                        *)
(***************************************************************************)
\* C5: the list of included generations is never empty; the checkbox of the only
\* remaining included generation is disabled, so that no toggle removes it.
C5_NeverEmpty ==
    /\ Len(settings.includedGenerations) >= 1
    /\ \A i \in 0..(Len(generations(settings)) - 1) :
           ~CheckboxDisabled(settings.includedGenerations, i)
               => toggleGeneration(settings.includedGenerations, i) # <<>>

\* one generation is left and the only checkbox rendered is disabled
C5_Witness ==
    /\ settings.includedGenerations = <<0>>
    /\ CheckboxDisabled(settings.includedGenerations, 0)

(***************************************************************************)
(* Properties of the cards (Spec).                                         *)
(***************************************************************************)
\* C6: revealing the card of data[k] sets the revealed flag of that entity to true
\* and changes nothing else: no other flag, no id, name, flavor or sprite, not
\* the length or order of data, and no other state.
C6_RevealFrame ==
    [][\A k \in CardInputs :
           Reveal(k) =>
               /\ Len(data') = Len(data)
               /\ data'[k + 1].revealed = "true"
               /\ \A i \in 1..Len(data) :
                      /\ data'[i].id = data[i].id
                      /\ data'[i].name = data[i].name
                      /\ data'[i].flavor = data[i].flavor
                      /\ data'[i].sprite = data[i].sprite
                      /\ i # k + 1 => data'[i].revealed = data[i].revealed
               /\ UNCHANGED <<settings, pkmnLoading, gameLoading, allPokemon, expandedRounds,
                              inFlight>>]_vars

\* one card has been revealed and the card next to it has not
C6_Witness ==
    /\ Len(data) >= 2
    /\ Truthy(data[2].revealed)
    /\ ~Truthy(data[1].revealed)

\* C7: as long as data is not replaced by a fetchGame call, a revealed entity stays
\* revealed and data keeps its length; a revealed card shows no Reveal Answer
\* button, and its handler would leave data as it is.
C7_RevealOneWay ==
    [][/\ \A i \in 1..Len(data) :
              Truthy(data[i].revealed) =>
                  /\ ~RevealButtonShown(i - 1)
                  /\ RevealedData(data, data[i]) = data
       /\ lastWrite' = lastWrite =>
              /\ Len(data') = Len(data)
              /\ \A i \in 1..Len(data) :
                     Truthy(data[i].revealed) => Truthy(data'[i].revealed)]_vars

\* two cards of the same data have been revealed, one after the other
C7_Witness ==
    /\ Len(data) >= 2
    /\ Truthy(data[1].revealed)
    /\ Truthy(data[2].revealed)

(***************************************************************************)
(* Properties of the redaction (SpecRedact).                               *)
(***************************************************************************)
WordPositions(c) == {i \in 1..Len(c) : IsWordChar(c[i])}

Least(S) == CHOOSE x \in S : \A y \in S : x <= y

Greatest(S) == CHOOSE x \in S : \A y \in S : x >= y

\* the token with the span of its word characters replaced by four underscores
WithWordSpanMasked(c) ==
    SubSeq(c, 1, Least(WordPositions(c)) - 1)
        \o <<"_", "_", "_", "_">>
        \o SubSeq(c, Greatest(WordPositions(c)) + 1, Len(c))

\* the token's word characters, lower-cased, are a banned word
MatchesBanned(c, banned) ==
    \E w \in banned :
        /\ Len(w) = Cardinality(WordPositions(c))
        /\ \A n \in 1..Len(w) :
               \E i \in WordPositions(c) :
                   /\ Cardinality({j \in WordPositions(c) : j <= i}) = n
                   /\ LowerChar(c[i]) = w[n]

SlowbroText == <<"S", "l", "o", "w", "b", "r", "o", " ", "i", "s", " ", "l", "a", "z", "y", ".">>

SlowbroMasked == <<"_", "_", "_", "_", " ", "i", "s", " ", "l", "a", "z", "y", ".">>

\* C8: after the map step, a token whose word characters, lower-cased, are a
\* banned word is the token with that span replaced by exactly four underscores
\* and its punctuation and whitespace kept; every other token is unchanged. With
\* the banned set {slowbro}, "Slowbro is lazy." becomes "____ is lazy.".
C8_TokenMasking ==
    /\ rPc \in {"join", "replace", "done"} =>
           /\ Len(rMasked) = Len(rTokens)
           /\ \A i \in 1..Len(rTokens) :
                  rMasked[i] = IF MatchesBanned(rTokens[i], rBanned)
                               THEN WithWordSpanMasked(rTokens[i])
                               ELSE rTokens[i]
    /\ (rPc = "done" /\ rText = SlowbroText /\ rBanned = {<<"s", "l", "o", "w", "b", "r", "o">>})
           => rOut = SlowbroMasked

\* the example text has been redacted
C8_Witness ==
    /\ rPc = "done"
    /\ rText = SlowbroText
    /\ rOut = SlowbroMasked

\* w stands in s as a word of its own: between non-word characters or the ends
OccursAsWord(w, s) ==
    \E i \in 1..(Len(s) - Len(w) + 1) :
        /\ SubSeq(s, i, i + Len(w) - 1) = w
        /\ i = 1 \/ ~IsWordChar(s[i - 1])
        /\ i + Len(w) > Len(s) \/ ~IsWordChar(s[i + Len(w)])

\* C9 (as claimed): the redacted text holds no occurrence, in any case, of a
\* banned name that occurred in the flavor text.
C9_NoBannedNameLeft ==
    rPc = "done" =>
        \A w \in rBanned :
            OccursAsWord(w, toLowerCase(rText)) => ~OccursAsWord(w, toLowerCase(rOut))

\* C10: redacting a redacted text again, with the same banned words, returns it
\* unchanged; a mask never yields a different text, even when "____" is banned.
C10_Idempotent ==
    rPc = "done" => RedactFlavor(rOut, rBanned) = rOut

\* a text has been masked while "____" itself is a banned word
C10_Witness ==
    /\ rPc = "done"
    /\ Mask \in rBanned
    /\ rOut # NormalizeWhitespace(rText)
    /\ \E i \in 1..Len(rMasked) : rMasked[i] # rTokens[i]

\* the characters of s that are not word characters, in order
NonWordPart(s) == SelectSeq(s, LAMBDA ch : ~IsWordChar(ch))

NoTokenMatches == \A i \in 1..Len(rTokens) : ~MatchesBanned(rTokens[i], rBanned)

\* C11: the tokens concatenated are the original text; a token that matches no
\* banned word is emitted unchanged, so that a text without a matching token
\* keeps its length and its characters but for whitespace made spaces; a
\* matching token keeps its non-word characters and its word is replaced by
\* exactly four underscores, whatever the length of the word.
C11_LosslessOutsideMasks ==
    /\ rPc \in {"map", "join", "replace", "done"} => JoinTokens(rTokens) = rText
    /\ rPc \in {"join", "replace", "done"} =>
           \A i \in 1..Len(rTokens) :
               IF MatchesBanned(rTokens[i], rBanned)
               THEN /\ StripNonWord(rMasked[i]) = <<"_", "_", "_", "_">>
                    /\ NonWordPart(rMasked[i]) = NonWordPart(rTokens[i])
                    /\ Len(rMasked[i]) = Len(rTokens[i]) - Cardinality(WordPositions(rTokens[i])) + 4
               ELSE rMasked[i] = rTokens[i]
    /\ (rPc = "done" /\ NoTokenMatches) =>
           /\ Len(rOut) = Len(rText)
           /\ \A j \in 1..Len(rText) :
                  rOut[j] = IF rText[j] \in WhitespaceChars THEN " " ELSE rText[j]

\* a three-letter name has been masked by four underscores next to tokens that
\* are kept, and the redacted text is one character longer than the original
C11_Witness ==
    /\ rPc = "done"
    /\ \E i \in 1..Len(rTokens) :
           /\ MatchesBanned(rTokens[i], rBanned)
           /\ Cardinality(WordPositions(rTokens[i])) = 3
    /\ \E i \in 1..Len(rTokens) :
           ~MatchesBanned(rTokens[i], rBanned) /\ rMasked[i] = rTokens[i]
    /\ Len(rOut) = Len(rText) + 1

(***************************************************************************)
(* Properties of the two effects (Spec).                                   *)
(***************************************************************************)
\* C12: getPokemonsList is requested exactly once in a session, whatever the
\* settings changes, reveals and fetchGame calls; once the listing is loaded,
\* the banned-word set is never written again.
C12_ListingRequestedOnce ==
    /\ [](listRequests = 1)
    /\ [][loader = "resolved" => (allPokemon' = allPokemon /\ loader' = "resolved")]_vars

\* the listing is loaded, two fetchGame calls were made (one for a settings
\* change) and a card is revealed
C12_Witness ==
    /\ loader = "resolved"
    /\ listRequests = 1
    /\ runsStarted >= 2
    /\ allPokemon \in Listings
    /\ \E i \in 1..Len(data) : data[i].revealed = "true"

\* C13: as long as pkmnLoading is true no fetchGame call was made, none is in
\* flight and data was never written, whatever settings changes were made.
C13_NoRunBeforeListing ==
    pkmnLoading =>
        /\ runsStarted = 0
        /\ inFlight = {}
        /\ lastWrite = NoRun
        /\ data = <<>>

\* both sliders were dragged while the listing was still requested
C13_Witness ==
    /\ pkmnLoading
    /\ loader = "pending"
    /\ settings.rounds = RoundsSliderMax
    /\ settings.pokemonPerRound = PokemonSliderMax
    /\ runsStarted = 0

\* C14: once getPokemonsList has failed, pkmnLoading and gameLoading stay true
\* and data stays empty whatever the user does, no fetchGame call is made and
\* the listing is not requested again.
C14_ListingFailureIsPermanent ==
    /\ [](loader = "failed" =>
             /\ pkmnLoading
             /\ gameLoading
             /\ data = <<>>
             /\ inFlight = {}
             /\ listRequests = 1)
    /\ [][loader = "failed" => loader' = "failed"]_vars

\* after the failure the user dragged both sliders, toggled a generation and
\* closed the first round
C14_Witness ==
    /\ loader = "failed"
    /\ settings.rounds = RoundsSliderMax
    /\ settings.pokemonPerRound = PokemonSliderMax
    /\ settings.includedGenerations # DefaultIncludedGenerations(revision)
    /\ ~Truthy(At(expandedRounds, 0))
    /\ gameLoading

\* C15 (as claimed): from the failure of a fetchGame call on, gameLoading is true.
C15_LoadingForeverAfterFailure == fetchFailed => gameLoading

\* C15 (amended): a fetchGame call that fails writes nothing and is not made
\* again, so data and gameLoading are left as they were; gameLoading becomes
\* false only when another fetchGame call completes and writes its entities.
C15_FailedRunWritesNothing ==
    [][/\ (\E run \in inFlight : FetchGameFail(run)) =>
              /\ gameLoading' = gameLoading
              /\ data' = data
              /\ runsStarted' = runsStarted
       /\ (gameLoading /\ ~gameLoading') =>
              \E run \in inFlight :
                  /\ inFlight' = inFlight \ {run}
                  /\ lastWrite' = run
                  /\ data' = Cleaned(run, revision)
                  /\ fetchFailed' = fetchFailed]_vars

\* the only fetchGame call has failed: the skeleton is shown and nothing is
\* in flight that could end it
C15_Witness ==
    /\ fetchFailed
    /\ gameLoading
    /\ ~pkmnLoading
    /\ inFlight = {}
    /\ data = <<>>

(***************************************************************************)
(* Properties of the listing (SpecListing).                                *)
(***************************************************************************)
\* C16 (as claimed): the banned-word set holds lower-cased names only, however
\* the listing spells them.
C16_NamesLowerCased ==
    ~pkmnLoading => \A w \in allPokemon : w = toLowerCase(w)

(***************************************************************************)
(* Properties of the settings handlers and of the sampling (Spec).         *)
(***************************************************************************)
\* C17: once the listing is loaded, every change of settings (either slider, or
\* a generation checkbox) sets gameLoading to true and makes exactly one new
\* fetchGame call, which captured the new settings and the loaded names and
\* sampled rounds x pokemonPerRound ids of the new settings.
C17_ChangeStartsOneRun ==
    [][(~pkmnLoading /\ settings' # settings) =>
          /\ gameLoading'
          /\ runsStarted' = runsStarted + 1
          /\ \E run \in inFlight' \ inFlight :
                 /\ inFlight' = inFlight \cup {run}
                 /\ run.n = runsStarted'
                 /\ run.settings = settings'
                 /\ run.bannedWordSet = allPokemon
                 /\ Len(run.ids) = settings'.rounds * settings'.pokemonPerRound]_vars

\* a game was shown, then the rounds slider was dragged to 10: the skeleton is
\* back and the second call, for 10 rounds, is in flight
C17_Witness ==
    /\ ~pkmnLoading
    /\ lastWrite # NoRun
    /\ gameLoading
    /\ runsStarted = 2
    /\ settings.rounds = RoundsSliderMax
    /\ \E run \in inFlight :
           /\ run.n = 2
           /\ run.settings = settings
           /\ Len(run.ids) = RoundsSliderMax * DEFAULT_POKES_PER_ROUND

\* the ids of generation g as the games number them: from the id after the
\* previous generation's last (from 1 for the first) up to its own last
FirstId(g) == IF g = 0 THEN 1 ELSE gameGenerations[g].maxDex + 1

LastId(g) == gameGenerations[g + 1].maxDex

InGeneration(id, g) == FirstId(g) <= id /\ id <= LastId(g)

\* the generation whose id range holds id
GenerationOf[id \in 1..LastId(Len(gameGenerations) - 1)] ==
    CHOOSE g \in GenerationIndices : InGeneration(id, g)

WithinGenerations(id, included) ==
    id \in DOMAIN GenerationOf /\ GenerationOf[id] \in included

\* C18: every id a fetchGame call sampled lies in the id range of a generation
\* included in the settings the call captured, and so does every id of the
\* entities written to data by the call that wrote last.
C18_SampledFromIncluded ==
    /\ \A run \in inFlight :
           LET included == Range(run.settings.includedGenerations)
           IN  \A k \in 1..Len(run.ids) : WithinGenerations(run.ids[k], included)
    /\ lastWrite # NoRun =>
           LET included == Range(lastWrite.settings.includedGenerations)
           IN  \A k \in 1..Len(data) : WithinGenerations(data[k].id, included)

\* the first generation was switched off and the game written since has 18
\* entities, none of the ids 1..151
C18_Witness ==
    /\ lastWrite # NoRun
    /\ ~Includes(lastWrite.settings.includedGenerations, 0)
    /\ Len(data) = DEFAULT_ROUNDS * DEFAULT_POKES_PER_ROUND
    /\ \A k \in 1..Len(data) : data[k].id > LastId(0)

(***************************************************************************)
(* Properties of generations() (SpecSettings).                             *)
(***************************************************************************)
\* the ids first, first + 1, ..., last
Interval(first, last) == [i \in 1..(last - first + 1) |-> first + i - 1]

\* C19: the entry of generation g expands to the ids from the id after the
\* previous generation's maxDex (from 1 for g = 0) up to its own maxDex; no id
\* is in the ranges of two generations, and the ranges of all nine together
\* are exactly the ids 1..1025.
C19_GenerationRanges ==
    LET gens == generations(settings)
    IN  /\ \A k \in 1..Len(gens) :
               LET g == settings.includedGenerations[k]
               IN  /\ g \in 0..8
                   /\ gens[k].startId = FirstId(g)
                   /\ gens[k].endId = LastId(g)
                   /\ availableIds(gens[k]) = Interval(FirstId(g), LastId(g))
        /\ Injective(FlatAvailableIds(gens))
        /\ Range(settings.includedGenerations) = 0..8 =>
               FlatAvailableIds(gens) = Interval(1, 1025)

\* all nine generations are included after the rounds slider was dragged, and
\* their ranges hold 1025 ids
C19_Witness ==
    /\ Range(settings.includedGenerations) = 0..8
    /\ settings.rounds = RoundsSliderMax
    /\ Len(FlatAvailableIds(generations(settings))) = 1025

(***************************************************************************)
(* Properties of the requests of one fetchGame call (SpecFetch).           *)
(***************************************************************************)
\* C20: whatever the order in which the species and pokemon requests resolved,
\* data holds one entity per sampled id, in the order of the sampled ids, each
\* made of the two records requested for its own id; it is what the call
\* writes when its requests are taken to resolve together.
C20_OrderOfIdsKept ==
    fPc = "done" =>
        /\ Len(data) = Len(fRun.ids)
        /\ \A k \in 1..Len(fRun.ids) :
               /\ data[k].id = fRun.ids[k]
               /\ data[k].name = PokemonRecord(fRun.ids[k]).name
               /\ data[k].sprite = PokemonRecord(fRun.ids[k]).sprite
               /\ data[k].flavor =
                      RedactFlavor(SpeciesRecord(fRun.ids[k]).flavor_text, fRun.bannedWordSet)
        /\ data = Cleaned(fRun, revision)

\* the requests of the last id resolved first and a request of the first id
\* last, and data starts with the first id
C20_Witness ==
    /\ fPc = "done"
    /\ Len(fRun.ids) = 3
    /\ fArrived[1][1] = 3
    /\ fArrived[2][1] = 3
    /\ fArrived[6][1] = 1
    /\ data[1].id = fRun.ids[1]
    /\ data[3].id = fRun.ids[3]

(***************************************************************************)
(* Properties of the entities a fetchGame call writes (Spec).              *)
(***************************************************************************)
\* C21 (as claimed): every entity a fetchGame call writes to data carries
\* revealed = false, so after each regeneration all cards start hidden.
C21_WrittenEntitiesHidden ==
    [][(\E run \in inFlight : FetchGameResolve(run)) =>
          \A k \in 1..Len(data') : data'[k].revealed = "false"]_vars

(***************************************************************************)
(* Properties of the settings (SpecSettings).                              *)
(***************************************************************************)
\* C22 (as claimed): initially all generations are included: while
\* includedGenerations is the list useState was given, it contains the index
\* of every entry of gameGenerations (all nine, 0..8).
C22_InitiallyAllIncluded ==
    settings.includedGenerations = DefaultIncludedGenerations(revision) =>
        /\ Range(settings.includedGenerations) = GenerationIndices
        /\ Range(settings.includedGenerations) = 0..8

(***************************************************************************)
(* Properties of the game view against the settings (Spec).                *)
(***************************************************************************)
\* C23 (as claimed): whenever the game view is shown (gameLoading = false),
\* data was generated from the current settings: it has rounds x
\* pokemonPerRound entities, so its chunks of pokemonPerRound are exactly
\* settings.rounds rounds of pokemonPerRound cards, and every id lies in a
\* generation that is included now.
C23_DataOfCurrentSettings ==
    ~gameLoading =>
        /\ Len(data) = settings.rounds * settings.pokemonPerRound
        /\ RenderedRounds = settings.rounds
        /\ LET included == Range(settings.includedGenerations)
           IN  \A k \in 1..Len(data) : WithinGenerations(data[k].id, included)

\* every request made so far has resolved successfully
Quiescent == loader = "resolved" /\ inFlight = {} /\ ~fetchFailed

\* C24 (as claimed): once the user has stopped changing settings and every
\* outstanding fetch has resolved successfully, in whatever order, gameLoading
\* is false and data is the result generated for the final settings: it was
\* written by a call that captured them and holds the ids that call sampled.
C24_ConvergesToFinalSettings ==
    Quiescent =>
        /\ ~gameLoading
        /\ lastWrite.settings = settings
        /\ Len(data) = total(settings)
        /\ DataIds = lastWrite.ids

\* the label of generation g
LabelOf(g) ==
    [generation |-> numeralLookup[g + 1],
     shortGame  |-> gameGenerations[g + 1].shortGame,
     game       |-> gameGenerations[g + 1].game]

\* C25 (as claimed): every rendered checkbox toggles the generation whose
\* label it displays: the index it passes to toggleGeneration is the index of
\* the generation whose numeral and game name are shown beside it, and it is
\* checked exactly when that generation is included.
C25_CheckboxTogglesItsLabel ==
    \A index \in 0..(Len(generations(settings)) - 1) :
        /\ CheckboxToggles(index) \in GenerationIndices
        /\ CheckboxLabel(settings, index) = LabelOf(CheckboxToggles(index))
        /\ CheckboxChecked(settings.includedGenerations, index)
               <=> Includes(settings.includedGenerations, CheckboxToggles(index))
        /\ \A g \in GenerationIndices :
               CheckboxLabel(settings, index) = LabelOf(g) =>
                   (CheckboxChecked(settings.includedGenerations, index)
                        <=> Includes(settings.includedGenerations, g))

\* C26 (as claimed): any excluded generation can be included again: in every
\* reachable state, for every generation index g in 0..8 that is not in
\* includedGenerations, a rendered checkbox that is not disabled exists whose
\* toggle adds g and nothing else.
C26_ExcludedCanBeIncluded ==
    \A g \in (0..8) \ Range(settings.includedGenerations) :
        \E index \in 0..(Len(generations(settings)) - 1) :
            /\ ~CheckboxDisabled(settings.includedGenerations, index)
            /\ Range(toggleGeneration(settings.includedGenerations, CheckboxToggles(index)))
                   = Range(settings.includedGenerations) \cup {g}

\* the number of ids of generation g, and of the smallest generation
GenerationSize(g) == LastId(g) - FirstId(g) + 1

SmallestGeneration ==
    CHOOSE n \in {GenerationSize(g) : g \in GenerationIndices} :
        \A g \in GenerationIndices : n <= GenerationSize(g)

\* the largest request the sliders can make

LargestRequest == RoundsSliderMax * PokemonSliderMax

\* C27: in every reachable settings state the pool of eligible ids holds at
\* least rounds x pokemonPerRound ids: every included generation has at least
\* 72 ids and the request is at most 10 x 6 = 60, so sampleSize returns as
\* many ids as were asked for.
C27_PoolCoversTotal ==
    LET gens == generations(settings)
    IN  /\ PoolSize(settings) >= total(settings)
        /\ \A k \in 1..Len(gens) : Len(availableIds(gens[k])) >= SmallestGeneration
        /\ SmallestGeneration = 72
        /\ total(settings) <= LargestRequest
        /\ LargestRequest = 60
        /\ Len(SampledIds(settings, 0)) = total(settings)

\* the tightest case: only generation VI (72 ids) is included and the sliders
\* ask for 10 rounds of 6
C27_Witness ==
    /\ settings.includedGenerations = <<5>>
    /\ settings.rounds = RoundsSliderMax
    /\ settings.pokemonPerRound = PokemonSliderMax
    /\ PoolSize(settings) = SmallestGeneration
    /\ Len(SampledIds(settings, 0)) = 60

(***************************************************************************)
(* Properties of a failing fetchGame call (SpecReject).                    *)
(***************************************************************************)
\* C28: round generation is all-or-nothing: when any one of the 2 x N species
\* and pokemon requests of a call has failed, whichever it is and however many
\* of the others had resolved, the call has written nothing: data, every
\* revealed flag and gameLoading are as they were before the failure.
C28_AllOrNothing ==
    fPc = "rejected" =>
        /\ data = ShownBefore(lastWrite, revision)
        /\ lastWrite.n = 1
        /\ Len(data) = DEFAULT_POKES_PER_ROUND
        /\ Truthy(data[1].revealed)
        /\ \A k \in 2..Len(data) : ~Truthy(data[k].revealed)
        /\ \A k \in 1..Len(data) : data[k].id = lastWrite.ids[k]
        /\ gameLoading
        /\ fRun \notin inFlight

\* three of the four requests had resolved when the pokemon request of the
\* second id failed: the old game, with its revealed card, is still in data
C28_Witness ==
    /\ fPc = "rejected"
    /\ Len(fArrived) = 3
    /\ \A i \in DOMAIN fArrived : fArrived[i] # <<2, "pokemon">>
    /\ Len(fRun.ids) = 2
    /\ Len(data) = 3
    /\ Truthy(data[1].revealed)
    /\ gameLoading

(***************************************************************************)
(* Properties of toggleGeneration (SpecSettings).                          *)
(***************************************************************************)
\* seq is strictly ascending
Ascending(seq) == \A i \in 1..(Len(seq) - 1) : seq[i] < seq[i + 1]

\* C29: after any sequence of generation toggles includedGenerations is a
\* duplicate-free, ascending list of indices within 0..8; toggleGeneration of
\* an included index removes exactly that index and of an excluded index adds
\* exactly that index, and a toggle leaves rounds and pokemonPerRound as they
\* were.
C29_ToggleResult ==
    /\ [](LET included == settings.includedGenerations
          IN  /\ Injective(included)
              /\ Ascending(included)
              /\ Range(included) \subseteq 0..8
              /\ \A index \in 0..8 :
                     LET newGens == toggleGeneration(included, index)
                     IN  /\ Injective(newGens)
                         /\ Ascending(newGens)
                         /\ Range(newGens) = IF Includes(included, index)
                                             THEN Range(included) \ {index}
                                             ELSE Range(included) \cup {index})
    /\ [][settings'.includedGenerations # settings.includedGenerations =>
             /\ \E index \in 0..8 :
                    settings'.includedGenerations =
                        toggleGeneration(settings.includedGenerations, index)
             /\ settings'.rounds = settings.rounds
             /\ settings'.pokemonPerRound = settings.pokemonPerRound]_vars

\* a list that toggles have produced, duplicate-free and ascending, with the
\* sliders where the user had put them
C29_Witness ==
    /\ settings.includedGenerations = <<0, 2, 3>>
    /\ settings.rounds = RoundsSliderMin
    /\ settings.pokemonPerRound = PokemonSliderMax

(***************************************************************************)
(* Properties of the round headers (SpecRounds).                           *)
(***************************************************************************)
\* C30 (as claimed): after any sequence of actions expandedRounds has exactly
\* settings.rounds entries, and toggleRound(i), for the header of every round
\* on the screen, flips entry i and leaves every other entry as it was; a
\* step that toggles a round leaves settings and data unchanged.
C30_ToggleRoundFlips ==
    /\ [](/\ Len(expandedRounds) = settings.rounds
          /\ \A i \in 0..(RenderedRounds - 1) :
                 LET next == toggleRound(expandedRounds, settings.rounds, i)
                 IN  /\ Len(next) = settings.rounds
                     /\ Truthy(At(next, i)) = ~Truthy(At(expandedRounds, i))
                     /\ \A j \in 0..(RoundsSliderMax - 1) :
                            j # i => At(next, j) = At(expandedRounds, j))
    /\ [][(\E i \in 0..(RenderedRounds - 1) : ToggleRound(i)) =>
             (settings' = settings /\ data' = data)]_vars

====
